---- MODULE Spec2Model ----
(***************************************************************************)
(* Model of the weather client in src/App.js: the weather classifier and   *)
(* theme table (pure functions) and the App component's controller state   *)
(* (useState cells, the async fetch functions and the weather effect).     *)
(***************************************************************************)
EXTENDS Integers, Sequences, FiniteSets, TLC

\* ------------------------------------------------------------------------
\* Bounds
\* ------------------------------------------------------------------------
MaxRequests == 2      \* search/location requests started in one session
MaxCode == 1000       \* condition codes 0..MaxCode are fed to the classifier
MaxTemp == 50         \* stored temperatures range over -MaxTemp..MaxTemp degrees Celsius
MaxRenders == 3       \* renders observed in a session of unit toggles
MaxDeg == 360         \* wind directions 0..MaxDeg degrees are fed to getWindDirection
MaxUvi == 1200        \* UV indices 0..MaxUvi hundredths are fed to getUVLevel
MaxVisibility == 10000 \* visibilities 0..MaxVisibility meters are fed to formatVisibility
MaxHumidity == 100    \* relative humidities 0..MaxHumidity percent, as the provider reports them
MaxTicks == 1500      \* timestamps 61 seconds apart, MaxTicks from a start, are fed to formatTime

\* ------------------------------------------------------------------------
\* Values
\* ------------------------------------------------------------------------
Null == [kind |-> "null"]            \* JS null held in a state cell
NoError == "null"                    \* error cell holding null
TypeError == "TypeError"             \* outcome: the call threw a TypeError
Pending == "pending"                 \* a pure call that has not returned yet

\* Icon codes are strings; a string is a sequence of one-character strings.
\* The provider's icons are two digits and a d/n suffix ("01d", "10n"); the
\* code does not validate them, so the other three-character strings ending
\* in d or n are inputs too.
IconChars == {"0", "1", "d", "n"}
Icons == {<<a, b, c>> : a \in IconChars, b \in IconChars, c \in {"d", "n"}}
ProviderIcons == {<<a, b, c>> : a \in {"0", "1"}, b \in {"0", "1"}, c \in {"d", "n"}}

WeatherTypes == {"thunderstorm", "rain", "snow", "cloudy", "sunny", "night", "default"}

\* String.prototype.includes for a one-character needle
includes(s, ch) == \E i \in 1..Len(s) : s[i] = ch

\* ------------------------------------------------------------------------
\* Pure functions
\* ------------------------------------------------------------------------
WEATHER_THEMES ==
  [t \in WeatherTypes |->
     CASE t = "thunderstorm" -> [background |-> "#0a0814", cardBg |-> "rgba(255, 255, 255, 0.08)", accent |-> "#9D7BD8"]
       [] t = "rain"         -> [background |-> "#0f0f1a", cardBg |-> "rgba(255, 255, 255, 0.08)", accent |-> "#6B8DD6"]
       [] t = "snow"         -> [background |-> "#3a4a5a", cardBg |-> "rgba(255, 255, 255, 0.1)",  accent |-> "#A8D5E5"]
       [] t = "cloudy"       -> [background |-> "#2d3a4a", cardBg |-> "rgba(255, 255, 255, 0.08)", accent |-> "#8EAEC4"]
       [] t = "sunny"        -> [background |-> "#4A90A4", cardBg |-> "rgba(255, 255, 255, 0.15)", accent |-> "#FFD93D"]
       [] t = "night"        -> [background |-> "#0a0a1a", cardBg |-> "rgba(255, 255, 255, 0.06)", accent |-> "#C9B8FF"]
       [] t = "default"      -> [background |-> "#1a2a3a", cardBg |-> "rgba(255, 255, 255, 0.08)", accent |-> "#64B5F6"]]

\* Variant of the lookup whose fallback is the first table entry
themeOf_fallbackFirst(type) ==
  IF type \in DOMAIN WEATHER_THEMES THEN WEATHER_THEMES[type] ELSE WEATHER_THEMES["thunderstorm"]

\* const theme = WEATHER_THEMES[weatherType] || WEATHER_THEMES.default
themeOf(type) ==
  IF type \in DOMAIN WEATHER_THEMES THEN WEATHER_THEMES[type] ELSE WEATHER_THEMES["default"]

\* Variants of the classifier with one rule changed (v names the change)
classifyVariant(weatherData, v) ==
  IF weatherData.kind = "null" THEN "default"
  ELSE IF weatherData.kind # "snapshot" THEN TypeError
  ELSE LET iconCode == weatherData.icon
           weatherId == weatherData.id
           isNight == includes(iconCode, "n")
       IN  IF (IF v = "thunderOpenLow" THEN weatherId > 200 ELSE weatherId >= 200) /\ weatherId < 300
             THEN "thunderstorm"
           ELSE IF (IF v = "rainOnly5xx" THEN weatherId >= 500 ELSE weatherId >= 300) /\ weatherId < 600
             THEN "rain"
           ELSE IF weatherId >= 600 /\ weatherId < 700 THEN "snow"
           ELSE IF weatherId >= 801 /\ weatherId <= 804
             THEN (IF isNight /\ v # "cloudsNoNight" THEN "night" ELSE "cloudy")
           ELSE IF weatherId = 800 THEN (IF isNight THEN "night" ELSE "sunny")
           ELSE IF weatherId >= 700 /\ weatherId < 800
             THEN (IF isNight /\ v = "atmosphereNight" THEN "night" ELSE "cloudy")
           ELSE IF isNight /\ v # "fallbackNoNight" THEN "night" ELSE "default"

getWeatherType_thunderOpenLow(weatherData) == classifyVariant(weatherData, "thunderOpenLow")
getWeatherType_rainOnly5xx(weatherData) == classifyVariant(weatherData, "rainOnly5xx")
getWeatherType_cloudsNoNight(weatherData) == classifyVariant(weatherData, "cloudsNoNight")
getWeatherType_atmosphereNight(weatherData) == classifyVariant(weatherData, "atmosphereNight")
getWeatherType_fallbackNoNight(weatherData) == classifyVariant(weatherData, "fallbackNoNight")

\* !weatherData is true of null; weatherData.weather[0] throws a TypeError
\* on an object without a weather array (a provider error body).
getWeatherType(weatherData) ==
  IF weatherData.kind = "null" THEN "default"
  ELSE IF weatherData.kind # "snapshot" THEN TypeError
  ELSE LET iconCode == weatherData.icon
           weatherId == weatherData.id
           isNight == includes(iconCode, "n")
       IN  IF weatherId >= 200 /\ weatherId < 300 THEN "thunderstorm"
           ELSE IF weatherId >= 300 /\ weatherId < 600 THEN "rain"
           ELSE IF weatherId >= 600 /\ weatherId < 700 THEN "snow"
           ELSE IF weatherId >= 801 /\ weatherId <= 804 THEN (IF isNight THEN "night" ELSE "cloudy")
           ELSE IF weatherId = 800 THEN (IF isNight THEN "night" ELSE "sunny")
           ELSE IF weatherId >= 700 /\ weatherId < 800 THEN "cloudy"
           ELSE IF isNight THEN "night" ELSE "default"

\* ------------------------------------------------------------------------
\* State
\* ------------------------------------------------------------------------
VARIABLES
  city,              \* search box text
  weather,           \* Null, a snapshot, or a provider error body
  forecast,          \* sequence of noon forecast entries
  oneCallData,       \* Null or extended-conditions data
  loading,
  error,
  weatherType,
  isCelsius,
  hasLoadedWeather,
  effectPending,     \* the [weather] effect is scheduled and has not run
  crashed,           \* an uncaught error unmounted the component
  reqs,              \* the requests started so far, in start order
  call               \* a call of a pure function: [fn, arg, done, ret]

vars == <<city, weather, forecast, oneCallData, loading, error, weatherType,
          isCelsius, hasLoadedWeather, effectPending, crashed, reqs, call>>

appVars == <<city, weather, forecast, oneCallData, loading, error, weatherType,
             isCelsius, hasLoadedWeather, effectPending, crashed, reqs>>

NoCall == [fn |-> "none", done |-> FALSE]

\* useState initial values
AppInit ==
  /\ city = <<>>
  /\ weather = Null
  /\ forecast = <<>>
  /\ oneCallData = Null
  /\ loading = FALSE
  /\ error = NoError
  /\ weatherType = "default"
  /\ isCelsius = FALSE
  /\ hasLoadedWeather = FALSE
  /\ effectPending = FALSE
  /\ crashed = FALSE
  /\ reqs = <<>>

\* Math.round(n / d) for d > 0: the integer nearest to n/d, halves upwards
round(n, d) == (2 * n + d) \div (2 * d)

\* convertTemp truncating instead of rounding
convertTemp_truncates(tempCelsius) ==
  IF isCelsius THEN tempCelsius \div 10
  ELSE (9 * tempCelsius + 1600) \div 50

\* convertTemp; a temperature is held in tenths of a degree Celsius, so
\* tempCelsius * 9 / 5 + 32 is (9 * tenths + 1600) / 50
convertTemp(tempCelsius) ==
  IF isCelsius THEN round(tempCelsius, 10)
  ELSE round(9 * tempCelsius + 1600, 50)

\* ------------------------------------------------------------------------
\* Formatting and derived-metric utilities.  A formatted text is the
\* sequence of the pieces the template literal concatenates; a number in
\* it stands for its decimal rendering.
\* ------------------------------------------------------------------------
NaN == [kind |-> "NaN"]
Undef == [kind |-> "undefined"]
Number(v) == [kind |-> "number", v |-> v]

\* minutes.toString().padStart(2, '0')
padStart2(n) == <<n \div 10, n % 10>>

\* formatTime as the device with UTC offset deviceOffset would compute it
\* with getHours/getMinutes instead of getUTCHours/getUTCMinutes
formatTime_localGetters(timestamp, timezoneOffset, deviceOffset) ==
  LET secs == timestamp + timezoneOffset + deviceOffset
      hours == (secs \div 3600) % 24
      minutes == (secs \div 60) % 60
      ampm == IF hours >= 12 THEN "PM" ELSE "AM"
      hour12 == IF hours % 12 # 0 THEN hours % 12 ELSE 12
  IN <<hour12, ":">> \o padStart2(minutes) \o <<" ", ampm>>

\* formatTime; new Date(ms).getUTCHours() is floor(ms / 3600000) mod 24 and
\* getUTCMinutes() is floor(ms / 60000) mod 60, with ms = secs * 1000.  The
\* device's own UTC offset is part of the environment and is not read.
formatTime(timestamp, timezoneOffset, deviceOffset) ==
  LET secs == timestamp + timezoneOffset
      hours == (secs \div 3600) % 24
      minutes == (secs \div 60) % 60
      ampm == IF hours >= 12 THEN "PM" ELSE "AM"
      hour12 == IF hours % 12 # 0 THEN hours % 12 ELSE 12
  IN <<hour12, ":">> \o padStart2(minutes) \o <<" ", ampm>>

directions == <<"N", "NE", "E", "SE", "S", "SW", "W", "NW">>

\* getWindDirection rounding degrees / 45 downwards
getWindDirection_floors(degrees) ==
  IF degrees.kind = "undefined" THEN ""
  ELSE directions[((degrees.v \div 45) % 8) + 1]

\* getWindDirection without the wrap of index 8 to 0
getWindDirection_noWrap(degrees) ==
  IF degrees.kind = "undefined" THEN ""
  ELSE LET index == round(degrees.v, 45)
       IN directions[(IF index > 7 THEN 7 ELSE index) + 1]

\* getWindDirection, for undefined or a non-negative integer number of degrees
getWindDirection(degrees) ==
  IF degrees.kind = "undefined" THEN ""
  ELSE LET index == round(degrees.v, 45) % 8
       IN directions[index + 1]

\* getUVLevel with exclusive upper bounds
getUVLevel_exclusive(uvi) ==
  IF uvi < 200 THEN [label |-> "Low", color |-> "#4CAF50"]
  ELSE IF uvi < 500 THEN [label |-> "Moderate", color |-> "#FFEB3B"]
  ELSE IF uvi < 700 THEN [label |-> "High", color |-> "#FF9800"]
  ELSE IF uvi < 1000 THEN [label |-> "Very High", color |-> "#F44336"]
  ELSE [label |-> "Extreme", color |-> "#9C27B0"]

\* getUVLevel; the UV index is held in hundredths
getUVLevel(uvi) ==
  IF uvi <= 200 THEN [label |-> "Low", color |-> "#4CAF50"]
  ELSE IF uvi <= 500 THEN [label |-> "Moderate", color |-> "#FFEB3B"]
  ELSE IF uvi <= 700 THEN [label |-> "High", color |-> "#FF9800"]
  ELSE IF uvi <= 1000 THEN [label |-> "Very High", color |-> "#F44336"]
  ELSE [label |-> "Extreme", color |-> "#9C27B0"]

\* The midpoints m (meters, m % 100 = 50, up to 10 km) for which the double
\* m / 1000 lies below the decimal m / 1000, so that toFixed(1) rounds it
\* down; the other midpoints lie above or (.25, .75) are exact and go up.
DoubleBelowMidpoint ==
  {1150, 1450, 1650, 1950, 2050, 2150, 2550, 2650, 3050, 3150, 3550, 3650,
   4050, 4350, 4550, 4850, 5050, 5350, 5550, 5850, 6050, 6350, 6550, 6850,
   7050, 7350, 7550, 7850, 8350, 8450, 8850, 8950, 9350, 9450, 9850, 9950}

\* (meters / 1000).toFixed(1): the number of tenths nearest to the double
toFixedTenths(meters) ==
  LET down == meters \div 100
      rest == meters % 100
  IN IF rest > 50 \/ (rest = 50 /\ meters \notin DoubleBelowMidpoint)
     THEN down + 1 ELSE down

\* formatVisibility always printing one decimal
formatVisibility_alwaysFixed(meters) ==
  IF meters >= 1000
  THEN <<toFixedTenths(meters) \div 10, ".", toFixedTenths(meters) % 10, " km">>
  ELSE <<meters, " m">>

\* formatVisibility, for a non-negative integer number of meters
formatVisibility(meters) ==
  IF meters >= 1000
  THEN IF meters % 1000 = 0
       THEN <<meters \div 1000, " km">>
       ELSE <<toFixedTenths(meters) \div 10, ".", toFixedTenths(meters) % 10, " km">>
  ELSE <<meters, " m">>

\* calculateDewPoint, as far as its result is a number at all: Math.log of
\* zero is -Infinity, which makes alpha -Infinity and the quotient
\* -Infinity / Infinity; Math.log of a negative number is NaN.  For a
\* positive humidity the result is a finite number, whose value is not
\* modelled.
calculateDewPoint(tempCelsius, humidity) ==
  IF humidity <= 0 THEN NaN ELSE [kind |-> "finite"]

\* ------------------------------------------------------------------------
\* Specification of the pure functions: one call, then its result
\* ------------------------------------------------------------------------
ClassifierInputs ==
  {Null, [kind |-> "errorBody", cod |-> 401]}
    \cup {[kind |-> "snapshot", id |-> c, icon |-> i] : c \in 0..MaxCode, i \in Icons}

ThemeInputs == {[tag |-> t] : t \in WeatherTypes \cup {"fog"}}

PureInit ==
  /\ AppInit
  /\ call \in {[fn |-> "getWeatherType", arg |-> x, done |-> FALSE, ret |-> Pending] : x \in ClassifierInputs}
         \cup {[fn |-> "theme", arg |-> x, done |-> FALSE, ret |-> Pending] : x \in ThemeInputs}

CallGetWeatherType ==
  /\ call.fn = "getWeatherType" /\ ~call.done
  /\ call' = [call EXCEPT !.done = TRUE, !.ret = getWeatherType(call.arg)]
  /\ UNCHANGED appVars

CallTheme ==
  /\ call.fn = "theme" /\ ~call.done
  /\ call' = [call EXCEPT !.done = TRUE, !.ret = themeOf(call.arg.tag)]
  /\ UNCHANGED appVars

PureNext == CallGetWeatherType \/ CallTheme

PureSpec == PureInit /\ [][PureNext]_vars

\* ------------------------------------------------------------------------
\* The App component: provider data
\* ------------------------------------------------------------------------
\* texts typed into the search box: empty, blank, and a name between blanks
SearchTexts == {<<>>, <<" ">>, <<" ", "a", " ">>}

\* String.prototype.trim
RECURSIVE trimStart(_)
trimStart(s) == IF s # <<>> /\ Head(s) = " " THEN trimStart(Tail(s)) ELSE s
RECURSIVE trimEnd(_)
trimEnd(s) == IF s # <<>> /\ s[Len(s)] = " " THEN trimEnd(SubSeq(s, 1, Len(s) - 1)) ELSE s
\* Variant of trim that removes leading whitespace only
trim_startOnly(s) == trimStart(s)
trim(s) == trimEnd(trimStart(s))

\* name of the place at the device's coordinates, as the provider reports it
HomeName == <<"a">>
\* weatherData.name of an error body
Undefined == <<"undefined">>

\* conditions the provider reports in a session
ProviderConditions ==
  {[id |-> 800, icon |-> <<"0", "1", "n">>],
   [id |-> 501, icon |-> <<"1", "0", "d">>]}

\* A current-weather body for request q; q records which request fetched it.
Snapshot(q, c, name) ==
  [kind |-> "snapshot", id |-> c.id, icon |-> c.icon, name |-> name, q |-> q]
\* A provider error body ({cod, message}): no weather, main, sys or name.
ErrorBody(q) == [kind |-> "errorBody", cod |-> 401, q |-> q]
\* forecastData.list: 3-hourly entries
ForecastList(q) ==
  <<[dt_txt |-> "09:00:00", q |-> q], [dt_txt |-> "12:00:00", q |-> q], [dt_txt |-> "15:00:00", q |-> q]>>
\* An extended-conditions body for request q (either endpoint)
OneCall(q) == [kind |-> "onecall", q |-> q]

\* forecastData.list.filter((item) => item.dt_txt.includes('12:00:00'))
IsNoon(item) == item.dt_txt = "12:00:00"
noonEntries(list) == SelectSeq(list, IsNoon)

\* ------------------------------------------------------------------------
\* The App component: handlers and continuations
\* ------------------------------------------------------------------------
\* The component is mounted and no effect is waiting: React runs a scheduled
\* effect before it renders the updates of the next event.
Live == ~crashed /\ ~effectPending

\* setWeather(w): the [weather] effect is scheduled when the value changes
SetWeather(w) == weather' = w /\ effectPending' = (w # weather)

\* A finished call no longer holds its cityName argument
Finished(req) == [req EXCEPT !.pc = "done", !.arg = <<>>]

\* TextInput onChangeText={setCity}
TypeCity(text) ==
  /\ Live
  /\ city' = text
  /\ UNCHANGED <<weather, forecast, oneCallData, loading, error, weatherType,
                 isCelsius, hasLoadedWeather, effectPending, crashed, reqs, call>>

\* Variant of the toggle that also converts the stored temperature
toggleTemperatureUnit_convertsStored ==
  /\ Live
  /\ isCelsius' = ~isCelsius
  /\ weather' = [weather EXCEPT !.temp = 10 * round(9 * @ + 1600, 50)]
  /\ UNCHANGED <<city, forecast, oneCallData, loading, error, weatherType,
                 hasLoadedWeather, effectPending, crashed, reqs, call>>

\* setIsCelsius(!isCelsius)
toggleTemperatureUnit ==
  /\ Live
  /\ isCelsius' = ~isCelsius
  /\ UNCHANGED <<city, weather, forecast, oneCallData, loading, error, weatherType,
                 hasLoadedWeather, effectPending, crashed, reqs, call>>

\* Variant of fetchWeatherByCity that does not clear the error at its start
handleSearch_keepsError ==
  /\ Live
  /\ IF trim(city) # <<>>
     THEN /\ Len(reqs) < MaxRequests
          /\ reqs' = Append(reqs, [kind |-> "city", arg |-> trim(city), pc |-> "weather", oc |-> "idle"])
          /\ loading' = TRUE
          /\ UNCHANGED <<city, weather, forecast, oneCallData, weatherType, isCelsius,
                         hasLoadedWeather, effectPending, crashed, call, error>>
     ELSE UNCHANGED vars

\* handleSearch, and fetchWeatherByCity up to its first await
handleSearch ==
  /\ Live
  /\ IF trim(city) # <<>>
     THEN /\ Len(reqs) < MaxRequests
          /\ reqs' = Append(reqs, [kind |-> "city", arg |-> trim(city), pc |-> "weather", oc |-> "idle"])
          /\ loading' = TRUE
          /\ error' = NoError
          /\ UNCHANGED <<city, weather, forecast, oneCallData, weatherType, isCelsius,
                         hasLoadedWeather, effectPending, crashed, call>>
     ELSE UNCHANGED vars

\* Variant of the city catch block that keeps the forecast it has
CityWeatherResponse_keepsForecast(r, outcome, c) ==
  /\ Live
  /\ r \in DOMAIN reqs /\ reqs[r].kind = "city" /\ reqs[r].pc = "weather"
  /\ IF outcome = "ok"
     THEN /\ SetWeather(Snapshot(r, c, reqs[r].arg))
          /\ hasLoadedWeather' = TRUE
          /\ reqs' = [reqs EXCEPT ![r].pc = "forecast", ![r].oc = "v3"]
          /\ UNCHANGED <<forecast, oneCallData, loading, error>>
     ELSE /\ error' = (IF outcome = "notok" THEN "City not found" ELSE "Network request failed")
          /\ SetWeather(Null)
          /\ oneCallData' = Null
          /\ loading' = FALSE
          /\ reqs' = [reqs EXCEPT ![r] = Finished(reqs[r])]
          /\ UNCHANGED <<hasLoadedWeather, forecast>>
  /\ UNCHANGED <<city, weatherType, isCelsius, crashed, call>>

\* Variant of the city response whose failure branch brings the showcase back
CityWeatherResponse_resetsLoaded(r, outcome, c) ==
  /\ Live
  /\ r \in DOMAIN reqs /\ reqs[r].kind = "city" /\ reqs[r].pc = "weather"
  /\ IF outcome = "ok"
     THEN /\ SetWeather(Snapshot(r, c, reqs[r].arg))
          /\ hasLoadedWeather' = TRUE
          /\ reqs' = [reqs EXCEPT ![r].pc = "forecast", ![r].oc = "v3"]
          /\ UNCHANGED <<forecast, oneCallData, loading, error>>
     ELSE /\ error' = (IF outcome = "notok" THEN "City not found" ELSE "Network request failed")
          /\ SetWeather(Null)
          /\ forecast' = <<>>
          /\ oneCallData' = Null
          /\ loading' = FALSE
          /\ reqs' = [reqs EXCEPT ![r] = Finished(reqs[r])]
          /\ hasLoadedWeather' = FALSE
  /\ UNCHANGED <<city, weatherType, isCelsius, crashed, call>>

\* fetchWeatherByCity: the current-weather response arrives
\*   "ok"     a 2xx response with a weather body
\*   "notok"  a non-2xx response
\*   "reject" fetch or json() rejected
CityWeatherResponse(r, outcome, c) ==
  /\ Live
  /\ r \in DOMAIN reqs /\ reqs[r].kind = "city" /\ reqs[r].pc = "weather"
  /\ IF outcome = "ok"
     THEN /\ SetWeather(Snapshot(r, c, reqs[r].arg))
          /\ hasLoadedWeather' = TRUE
          /\ reqs' = [reqs EXCEPT ![r].pc = "forecast", ![r].oc = "v3"]
          /\ UNCHANGED <<forecast, oneCallData, loading, error>>
     ELSE /\ error' = (IF outcome = "notok" THEN "City not found" ELSE "Network request failed")
          /\ SetWeather(Null)
          /\ forecast' = <<>>
          /\ oneCallData' = Null
          /\ loading' = FALSE
          /\ reqs' = [reqs EXCEPT ![r] = Finished(reqs[r])]
          /\ UNCHANGED hasLoadedWeather
  /\ UNCHANGED <<city, weatherType, isCelsius, crashed, call>>

\* fetchWeatherByCity: the forecast response arrives
\*   "list"      a body with a list
\*   "errorBody" a body without a list: forecastData.list.filter throws
\*   "reject"    fetch or json() rejected
CityForecastResponse(r, outcome) ==
  /\ Live
  /\ r \in DOMAIN reqs /\ reqs[r].kind = "city" /\ reqs[r].pc = "forecast"
  /\ IF outcome = "list"
     THEN /\ forecast' = noonEntries(ForecastList(r))
          /\ UNCHANGED <<weather, effectPending, oneCallData, error>>
     ELSE /\ error' = (IF outcome = "errorBody" THEN "Cannot read property 'filter' of undefined"
                                                ELSE "Network request failed")
          /\ SetWeather(Null)
          /\ forecast' = <<>>
          /\ oneCallData' = Null
  /\ loading' = FALSE
  /\ reqs' = [reqs EXCEPT ![r] = Finished(reqs[r])]
  /\ UNCHANGED <<city, weatherType, isCelsius, hasLoadedWeather, crashed, call>>

\* getLocation up to its first await
getLocation ==
  /\ Live
  /\ Len(reqs) < MaxRequests
  /\ reqs' = Append(reqs, [kind |-> "location", arg |-> <<>>, pc |-> "permission", oc |-> "idle"])
  /\ loading' = TRUE
  /\ UNCHANGED <<city, weather, forecast, oneCallData, error, weatherType, isCelsius,
                 hasLoadedWeather, effectPending, crashed, call>>

\* Variant of the denial branch that leaves the loading flag set
PermissionResult_keepsLoading(r, outcome) ==
  /\ Live
  /\ r \in DOMAIN reqs /\ reqs[r].kind = "location" /\ reqs[r].pc = "permission"
  /\ IF outcome = "granted"
     THEN /\ reqs' = [reqs EXCEPT ![r].pc = "position"]
          /\ UNCHANGED <<error, loading>>
     ELSE /\ error' = (IF outcome = "denied" THEN "Location permission denied" ELSE "Could not get location")
          /\ reqs' = [reqs EXCEPT ![r] = Finished(reqs[r])]
          /\ UNCHANGED loading
  /\ UNCHANGED <<city, weather, forecast, oneCallData, weatherType, isCelsius,
                 hasLoadedWeather, effectPending, crashed, call>>

\* getLocation: requestForegroundPermissionsAsync settles
PermissionResult(r, outcome) ==
  /\ Live
  /\ r \in DOMAIN reqs /\ reqs[r].kind = "location" /\ reqs[r].pc = "permission"
  /\ IF outcome = "granted"
     THEN /\ reqs' = [reqs EXCEPT ![r].pc = "position"]
          /\ UNCHANGED <<error, loading>>
     ELSE /\ error' = (IF outcome = "denied" THEN "Location permission denied" ELSE "Could not get location")
          /\ loading' = FALSE
          /\ reqs' = [reqs EXCEPT ![r] = Finished(reqs[r])]
  /\ UNCHANGED <<city, weather, forecast, oneCallData, weatherType, isCelsius,
                 hasLoadedWeather, effectPending, crashed, call>>

\* getLocation: getCurrentPositionAsync settles; on a fix, fetchWeatherByCoords
\* runs up to its first await
PositionResult(r, outcome) ==
  /\ Live
  /\ r \in DOMAIN reqs /\ reqs[r].kind = "location" /\ reqs[r].pc = "position"
  /\ IF outcome = "fix"
     THEN /\ loading' = TRUE
          /\ error' = NoError
          /\ reqs' = [reqs EXCEPT ![r].pc = "weather"]
     ELSE /\ error' = "Could not get location"
          /\ loading' = FALSE
          /\ reqs' = [reqs EXCEPT ![r] = Finished(reqs[r])]
  /\ UNCHANGED <<city, weather, forecast, oneCallData, weatherType, isCelsius,
                 hasLoadedWeather, effectPending, crashed, call>>

\* fetchWeatherByCoords: the current-weather response arrives; its status is
\* not looked at
\*   "ok"        a weather body
\*   "errorBody" a non-2xx response, whose JSON body is stored all the same
\*   "reject"    fetch or json() rejected
CoordsWeatherResponse(r, outcome, c) ==
  /\ Live
  /\ r \in DOMAIN reqs /\ reqs[r].kind = "location" /\ reqs[r].pc = "weather"
  /\ IF outcome = "reject"
     THEN /\ error' = "Failed to fetch weather data"
          /\ oneCallData' = Null
          /\ loading' = FALSE
          /\ reqs' = [reqs EXCEPT ![r] = Finished(reqs[r])]
          /\ UNCHANGED <<weather, effectPending, city, hasLoadedWeather>>
     ELSE /\ SetWeather(IF outcome = "ok" THEN Snapshot(r, c, HomeName) ELSE ErrorBody(r))
          /\ city' = (IF outcome = "ok" THEN HomeName ELSE Undefined)
          /\ hasLoadedWeather' = TRUE
          /\ reqs' = [reqs EXCEPT ![r].pc = "forecast", ![r].oc = "v3"]
          /\ UNCHANGED <<oneCallData, loading, error>>
  /\ UNCHANGED <<forecast, weatherType, isCelsius, crashed, call>>

\* fetchWeatherByCoords: the forecast response arrives
CoordsForecastResponse(r, outcome) ==
  /\ Live
  /\ r \in DOMAIN reqs /\ reqs[r].kind = "location" /\ reqs[r].pc = "forecast"
  /\ IF outcome = "list"
     THEN /\ forecast' = noonEntries(ForecastList(r))
          /\ UNCHANGED <<oneCallData, error>>
     ELSE /\ error' = "Failed to fetch weather data"
          /\ oneCallData' = Null
          /\ UNCHANGED forecast
  /\ loading' = FALSE
  /\ reqs' = [reqs EXCEPT ![r] = Finished(reqs[r])]
  /\ UNCHANGED <<city, weather, weatherType, isCelsius, hasLoadedWeather, effectPending,
                 crashed, call>>

\* fetchOneCallData: the One Call 3.0 response arrives
OneCall30Response(r, outcome) ==
  /\ Live
  /\ r \in DOMAIN reqs /\ reqs[r].oc = "v3"
  /\ IF outcome = "ok"
     THEN oneCallData' = OneCall(r) /\ reqs' = [reqs EXCEPT ![r].oc = "done"]
     ELSE IF outcome = "notok"
     THEN UNCHANGED oneCallData /\ reqs' = [reqs EXCEPT ![r].oc = "v25"]
     ELSE oneCallData' = Null /\ reqs' = [reqs EXCEPT ![r].oc = "done"]
  /\ UNCHANGED <<city, weather, forecast, loading, error, weatherType, isCelsius,
                 hasLoadedWeather, effectPending, crashed, call>>

\* Variant of the One Call catch block that reports the failure
OneCall25Response_reportsError(r, outcome) ==
  /\ Live
  /\ r \in DOMAIN reqs /\ reqs[r].oc = "v25"
  /\ oneCallData' = (IF outcome = "ok" THEN OneCall(r) ELSE Null)
  /\ error' = (IF outcome = "reject" THEN "Network request failed" ELSE error)
  /\ reqs' = [reqs EXCEPT ![r].oc = "done"]
  /\ UNCHANGED <<city, weather, forecast, loading, weatherType, isCelsius,
                 hasLoadedWeather, effectPending, crashed, call>>

\* fetchOneCallData: the One Call 2.5 response arrives
OneCall25Response(r, outcome) ==
  /\ Live
  /\ r \in DOMAIN reqs /\ reqs[r].oc = "v25"
  /\ oneCallData' = (IF outcome = "ok" THEN OneCall(r) ELSE Null)
  /\ reqs' = [reqs EXCEPT ![r].oc = "done"]
  /\ UNCHANGED <<city, weather, forecast, loading, error, weatherType, isCelsius,
                 hasLoadedWeather, effectPending, crashed, call>>

\* Variant of the effect that keeps the weather type it has
RunEffect_keepsType ==
  /\ ~crashed /\ effectPending
  /\ effectPending' = FALSE
  /\ UNCHANGED <<city, weather, forecast, oneCallData, loading, error, weatherType,
                 isCelsius, hasLoadedWeather, crashed, reqs, call>>

\* Variant of the effect without the if (weather) guard around the
\* classification (getWeatherType(null) is 'default')
RunEffect_noGuard ==
  /\ ~crashed /\ effectPending
  /\ effectPending' = FALSE
  /\ IF getWeatherType(weather) = TypeError
     THEN crashed' = TRUE /\ UNCHANGED weatherType
     ELSE weatherType' = getWeatherType(weather) /\ UNCHANGED crashed
  /\ UNCHANGED <<city, weather, forecast, oneCallData, loading, error,
                 isCelsius, hasLoadedWeather, reqs, call>>

\* useEffect(() => { if (weather) setWeatherType(getWeatherType(weather)) }, [weather]);
\* an error thrown by the effect is caught by nothing and unmounts the component
RunEffect ==
  /\ ~crashed /\ effectPending
  /\ effectPending' = FALSE
  /\ IF weather # Null
     THEN IF getWeatherType(weather) = TypeError
          THEN crashed' = TRUE /\ UNCHANGED weatherType
          ELSE weatherType' = getWeatherType(weather) /\ UNCHANGED crashed
     ELSE UNCHANGED <<weatherType, crashed>>
  /\ UNCHANGED <<city, weather, forecast, oneCallData, loading, error,
                 isCelsius, hasLoadedWeather, reqs, call>>

Init == AppInit /\ call = NoCall

Next ==
  \/ \E text \in SearchTexts : TypeCity(text)
  \/ toggleTemperatureUnit
  \/ handleSearch
  \/ getLocation
  \/ \E r \in 1..MaxRequests, o \in {"ok", "notok", "reject"}, c \in ProviderConditions :
        CityWeatherResponse(r, o, c)
  \/ \E r \in 1..MaxRequests, o \in {"list", "errorBody", "reject"} : CityForecastResponse(r, o)
  \/ \E r \in 1..MaxRequests, o \in {"granted", "denied", "reject"} : PermissionResult(r, o)
  \/ \E r \in 1..MaxRequests, o \in {"fix", "reject"} : PositionResult(r, o)
  \/ \E r \in 1..MaxRequests, o \in {"ok", "errorBody", "reject"}, c \in ProviderConditions :
        CoordsWeatherResponse(r, o, c)
  \/ \E r \in 1..MaxRequests, o \in {"list", "errorBody", "reject"} : CoordsForecastResponse(r, o)
  \/ \E r \in 1..MaxRequests, o \in {"ok", "notok", "reject"} : OneCall30Response(r, o)
  \/ \E r \in 1..MaxRequests, o \in {"ok", "notok", "reject"} : OneCall25Response(r, o)
  \/ RunEffect

Spec == Init /\ [][Next]_vars

\* Sessions in which the user starts a request only after the primary
\* fetches of the earlier requests have ended
NoOverlap == Len(reqs') > Len(reqs) => \A s \in DOMAIN reqs : reqs[s].pc = "done"
SeqNext == Next /\ NoOverlap
SeqSpec == Init /\ [][SeqNext]_vars

\* ------------------------------------------------------------------------
\* Specification of the formatting utilities: one call of a utility, or
\* one render of the dew point card of a displayed snapshot
\* ------------------------------------------------------------------------
TimeInputs ==
  [timestamp : {61 * k : k \in 0..MaxTicks} \cup {1700000000 + 61 * k : k \in 0..MaxTicks},
   timezoneOffset : {-18000, 0, 19800, 45900},
   deviceOffset : {-28800, 0, 3600}]

DegreeInputs == {Undef} \cup {Number(d) : d \in 0..MaxDeg}

TempInputs == ((-10 * MaxTemp)..(10 * MaxTemp)) \cup {1000}

PendingCall(fn, arg) == [fn |-> fn, arg |-> arg, done |-> FALSE, ret |-> Pending]

\* the utilities are called with the controller's state as it is; the unit
\* flag is whatever the user toggled it to
FormatInit ==
  /\ city = HomeName
  /\ forecast = noonEntries(ForecastList(1))
  /\ oneCallData = OneCall(1)
  /\ loading = FALSE
  /\ error = NoError
  /\ hasLoadedWeather = TRUE
  /\ effectPending = FALSE
  /\ crashed = FALSE
  /\ reqs = <<[kind |-> "location", arg |-> <<>>, pc |-> "done", oc |-> "done"]>>
  /\ \E c \in ProviderConditions :
        /\ \/ /\ weather = [kind |-> "snapshot", id |-> c.id, icon |-> c.icon,
                            name |-> HomeName, q |-> 1, temp |-> 215, humidity |-> 50]
              /\ \/ /\ isCelsius = FALSE
                    /\ call \in {PendingCall("formatTime", x) : x \in TimeInputs}
                          \cup {PendingCall("getWindDirection", x) : x \in DegreeInputs}
                          \cup {PendingCall("getUVLevel", x) : x \in 0..MaxUvi}
                          \cup {PendingCall("formatVisibility", x) : x \in 0..MaxVisibility}
                 \/ /\ isCelsius \in BOOLEAN
                    /\ call \in {PendingCall("convertTemp", x) : x \in TempInputs}
           \/ /\ \E h \in 0..MaxHumidity, t \in {-105, 215} :
                    weather = [kind |-> "snapshot", id |-> c.id, icon |-> c.icon,
                               name |-> HomeName, q |-> 1, temp |-> t, humidity |-> h]
              /\ isCelsius \in BOOLEAN
              /\ call = PendingCall("render", "dewPointCard")
        /\ weatherType = getWeatherType(weather)

Return(v) == call' = [call EXCEPT !.done = TRUE, !.ret = v] /\ UNCHANGED appVars

CallFormatTime ==
  /\ call.fn = "formatTime" /\ ~call.done
  /\ Return(formatTime(call.arg.timestamp, call.arg.timezoneOffset, call.arg.deviceOffset))

CallGetWindDirection ==
  /\ call.fn = "getWindDirection" /\ ~call.done
  /\ Return(getWindDirection(call.arg))

CallGetUVLevel ==
  /\ call.fn = "getUVLevel" /\ ~call.done
  /\ Return(getUVLevel(call.arg))

CallFormatVisibility ==
  /\ call.fn = "formatVisibility" /\ ~call.done
  /\ Return(formatVisibility(call.arg))

CallConvertTemp ==
  /\ call.fn = "convertTemp" /\ ~call.done
  /\ Return(convertTemp(call.arg))

\* the dew point card: {convertTemp(calculateDewPoint(weather.main.temp,
\* weather.main.humidity))}; Math.round in convertTemp keeps NaN
RenderDewPointCard ==
  /\ call.fn = "render" /\ ~call.done
  /\ weather # Null /\ ~loading
  /\ call' = [fn |-> "calculateDewPoint",
              arg |-> [tempCelsius |-> weather.temp, humidity |-> weather.humidity],
              done |-> TRUE,
              ret |-> calculateDewPoint(weather.temp, weather.humidity)]
  /\ UNCHANGED appVars

FormatNext ==
  \/ CallFormatTime
  \/ CallGetWindDirection
  \/ CallGetUVLevel
  \/ CallFormatVisibility
  \/ CallConvertTemp
  \/ RenderDewPointCard

FormatSpec == FormatInit /\ [][FormatNext]_vars

\* showQuadrantShowcase={!hasLoadedWeather}: the landing showcase is shown
showQuadrantShowcase == ~hasLoadedWeather

\* ------------------------------------------------------------------------
\* Specification of the unit toggle: a snapshot is displayed, the user
\* toggles the unit, and renders show the converted temperature
\* ------------------------------------------------------------------------
\* the display after one finished location request, main.temp included
UnitInit ==
  /\ \E c \in ProviderConditions, t \in (-10 * MaxTemp)..(10 * MaxTemp) :
        /\ weather = [kind |-> "snapshot", id |-> c.id, icon |-> c.icon,
                      name |-> HomeName, q |-> 1, temp |-> t]
        /\ weatherType = getWeatherType(weather)
  /\ city = HomeName
  /\ forecast = noonEntries(ForecastList(1))
  /\ oneCallData = OneCall(1)
  /\ loading = FALSE
  /\ error = NoError
  /\ isCelsius = FALSE
  /\ hasLoadedWeather = TRUE
  /\ effectPending = FALSE
  /\ crashed = FALSE
  /\ reqs = <<[kind |-> "location", arg |-> <<>>, pc |-> "done", oc |-> "done"]>>
  /\ call = [fn |-> "render", done |-> FALSE, shown |-> <<>>]

\* a render of the temperature line: {convertTemp(weather.main.temp)}
Render ==
  /\ Live /\ weather # Null /\ ~loading
  /\ Len(call.shown) < MaxRenders
  /\ call' = [call EXCEPT !.shown = Append(@, [celsius |-> isCelsius,
                                               temp |-> convertTemp(weather.temp),
                                               stored |-> weather.temp])]
  /\ UNCHANGED appVars

UnitNext == toggleTemperatureUnit \/ Render

UnitSpec == UnitInit /\ [][UnitNext]_vars

\* ------------------------------------------------------------------------
\* Properties of the classifier and the theme table (under PureSpec)
\* ------------------------------------------------------------------------
Classified == call.fn = "getWeatherType" /\ call.done /\ call.arg.kind = "snapshot"
Last(s) == s[Len(s)]
\* the provider's icon vocabulary: two digits, then d for day or n for night
NightIcon(i) == i \in ProviderIcons /\ Last(i) = "n"
DayIcon(i) == i \in ProviderIcons /\ Last(i) = "d"

\* C1: every condition code in [200,300) is classified 'thunderstorm',
\* whatever the icon code (day or night).
C1_Thunderstorm ==
  (Classified /\ call.arg.id >= 200 /\ call.arg.id < 300) => call.ret = "thunderstorm"

C1_Witness ==
  Classified /\ call.arg.id = 200 /\ call.arg.icon = <<"1", "1", "n">> /\ call.ret = "thunderstorm"

\* C2: every condition code in [300,600) is classified 'rain', whatever the
\* icon code: drizzle (3xx) and rain (5xx) alike, with no night variant.
C2_Rain ==
  (Classified /\ call.arg.id >= 300 /\ call.arg.id < 600) => call.ret = "rain"

C2_Witness ==
  Classified /\ call.arg.id = 300 /\ call.arg.icon = <<"0", "1", "n">> /\ call.ret = "rain"

\* C3: for codes 800..804 a night icon of the provider gives 'night'; a day
\* icon of the provider gives 'sunny' for 800 and 'cloudy' for 801..804.
C3_ClearAndClouds ==
  (Classified /\ call.arg.id >= 800 /\ call.arg.id <= 804) =>
     /\ NightIcon(call.arg.icon) => call.ret = "night"
     /\ DayIcon(call.arg.icon) => call.ret = (IF call.arg.id = 800 THEN "sunny" ELSE "cloudy")

C3_Witness ==
  Classified /\ call.arg.id = 802 /\ call.arg.icon = <<"0", "1", "n">> /\ call.ret = "night"

\* C4: snow codes [600,700) are classified 'snow' and atmosphere codes
\* [700,800) 'cloudy', for day and night icons alike.
C4_SnowAndAtmosphere ==
  /\ (Classified /\ call.arg.id >= 600 /\ call.arg.id < 700) => call.ret = "snow"
  /\ (Classified /\ call.arg.id >= 700 /\ call.arg.id < 800) => call.ret = "cloudy"

C4_Witness ==
  Classified /\ call.arg.id = 741 /\ call.arg.icon = <<"1", "0", "n">> /\ call.ret = "cloudy"

\* C5: a code outside 200..804 is classified 'night' with a night icon of the
\* provider and 'default' with a day icon, and every classification of a
\* snapshot is one of the seven weather-type tags.
C5_FallbackTotal ==
  Classified =>
     /\ call.ret \in WeatherTypes
     /\ (call.arg.id < 200 \/ call.arg.id > 804) =>
           /\ NightIcon(call.arg.icon) => call.ret = "night"
           /\ DayIcon(call.arg.icon) => call.ret = "default"

C5_Witness ==
  Classified /\ call.arg.id = 805 /\ call.arg.icon = <<"0", "1", "n">> /\ call.ret = "night"

\* C6 (as claimed): a missing or malformed snapshot is classified 'default';
\* classification never fails on missing fields.
C6_MalformedIsDefault ==
  (call.fn = "getWeatherType" /\ call.done /\ call.arg.kind # "snapshot") => call.ret = "default"

C8_ThemeLookup ==
  /\ (call.fn = "theme" /\ call.done) =>
        /\ call.arg.tag \in WeatherTypes => call.ret = WEATHER_THEMES[call.arg.tag]
        /\ call.arg.tag \notin WeatherTypes => call.ret = WEATHER_THEMES["default"]
        /\ \A t \in WeatherTypes : themeOf(t) = call.ret => (t = call.arg.tag \/ call.arg.tag \notin WeatherTypes)
  /\ (Classified /\ call.arg.id = 501 /\ call.arg.icon = <<"1", "0", "d">>) =>
        themeOf(call.ret) = WEATHER_THEMES["rain"]

C8_Witness ==
  call.fn = "theme" /\ call.done /\ call.arg.tag = "fog" /\ call.ret.accent = "#64B5F6"

\* ------------------------------------------------------------------------
\* Properties of the controller (under Spec)
\* ------------------------------------------------------------------------
\* C9: whenever a snapshot is held and the weather effect has run,
\* weatherType is the classification of the held snapshot; as long as no
\* current-weather response has been stored, weatherType is 'default'.
C9_TypeFollowsSnapshot ==
  /\ (weather.kind = "snapshot" /\ ~effectPending) => weatherType = getWeatherType(weather)
  /\ ~hasLoadedWeather => weatherType = "default"

\* a second snapshot has replaced the first and has been classified
C9_Witness ==
  /\ weather.kind = "snapshot" /\ weather.q = 2 /\ ~effectPending
  /\ reqs[1].pc = "done" /\ reqs[1].kind = "city"
  /\ weatherType = "rain"

\* C10 (as claimed): once a city search started after a location request has
\* produced the held weather, forecast or extended conditions, the result of
\* the older location request does not replace them, nor the search text.
C10_StaleLocationDiscarded ==
  [][\A i \in DOMAIN reqs, j \in DOMAIN reqs :
        (i < j /\ reqs[i].kind = "location" /\ reqs[j].kind = "city") =>
           /\ (weather.kind = "snapshot" /\ weather.q = j) =>
                 /\ ~(weather'.kind = "snapshot" /\ weather'.q = i)
                 /\ (reqs[i].pc = "weather" /\ reqs'[i].pc = "forecast") => city' = city
           /\ (forecast # <<>> /\ forecast[1].q = j) =>
                 ~(forecast' # <<>> /\ forecast'[1].q = i)
           /\ (oneCallData.kind = "onecall" /\ oneCallData.q = j) =>
                 ~(oneCallData'.kind = "onecall" /\ oneCallData'.q = i)]_vars

\* Steps of one request, recognised by the move of its position
\* (r's primary fetch sequence ends in this step)
PrimaryEnds(r) ==
  r \in DOMAIN reqs /\ reqs[r].pc \in {"weather", "forecast"} /\ reqs'[r].pc = "done"
\* (it ends with the forecast of r stored, that is, without a failure)
PrimarySucceeds(r) ==
  PrimaryEnds(r) /\ reqs[r].pc = "forecast" /\ forecast' # <<>> /\ forecast'[1].q = r
PrimaryFails(r) == PrimaryEnds(r) /\ ~PrimarySucceeds(r)
\* (a response of r's extended-conditions fetch is handled in this step)
OneCallStep(r) ==
  r \in DOMAIN reqs /\ reqs[r].oc \in {"v3", "v25"} /\ reqs'[r].oc # reqs[r].oc

\* C11 (as claimed): in every displayed state (a weather value held, loading
\* false) the forecast and the extended conditions held come from the same
\* request as the weather value.
C11_OneQueryDisplayed ==
  (weather # Null /\ ~loading) =>
     /\ forecast # <<>> => forecast[1].q = weather.q
     /\ oneCallData # Null => oneCallData.q = weather.q

\* C12 (as claimed): when a request's current-weather or forecast fetch
\* fails, on the city path or the coordinates path, weather is null once the
\* request has finished.
C12_FailureDiscardsSnapshot ==
  [][\A r \in DOMAIN reqs : PrimaryFails(r) => weather' = Null]_vars

\* C13: a city search whose current-weather response is not ok (or whose
\* fetch rejects) ends, in that step, with an error message set, loading
\* false, weather null, forecast empty and oneCallData null.
C13_CityNotFoundClears ==
  [][\A r \in DOMAIN reqs :
        (reqs[r].kind = "city" /\ reqs[r].pc = "weather" /\ reqs'[r].pc = "done") =>
           /\ error' \in {"City not found", "Network request failed"}
           /\ ~loading'
           /\ weather' = Null /\ forecast' = <<>> /\ oneCallData' = Null]_vars

\* the search failed after an earlier request had filled the display
C13_Witness ==
  /\ error = "City not found" /\ ~loading /\ hasLoadedWeather
  /\ weather = Null /\ forecast = <<>> /\ oneCallData = Null
  /\ Len(reqs) = 2 /\ reqs[2].kind = "city" /\ reqs[2].pc = "done" /\ reqs[2].oc = "idle"

\* C14: the failure of a city search does not change weatherType, neither in
\* the step that clears the snapshot nor in the weather effect that runs on
\* the cleared (null) snapshot.
C14_FailureKeepsType ==
  [][/\ \A r \in DOMAIN reqs : (reqs[r].kind = "city" /\ PrimaryFails(r)) => weatherType' = weatherType
     /\ (weather = Null /\ effectPending /\ ~effectPending') => weatherType' = weatherType]_vars

\* a classified snapshot was cleared by a failed search, the effect has run
\* and the type is still the last-known one
C14_Witness ==
  /\ weather = Null /\ ~effectPending /\ error = "City not found"
  /\ weatherType = "rain"

\* C15: when the permission request ends the location request (permission
\* not granted, or the request rejected), the step sets an error message and
\* loading false, leaves weather, forecast and oneCallData unchanged and
\* issues no position request and no fetch.
C15_PermissionDenied ==
  [][\A r \in DOMAIN reqs :
        (reqs[r].pc = "permission" /\ reqs'[r].pc # "permission") =>
           \/ /\ reqs'[r].pc = "position"
              /\ UNCHANGED <<error, loading, weather, forecast, oneCallData>>
           \/ /\ reqs'[r].pc = "done" /\ reqs'[r].oc = "idle"
              /\ error' \in {"Location permission denied", "Could not get location"}
              /\ ~loading'
              /\ UNCHANGED <<weather, forecast, oneCallData>>]_vars

\* permission was denied while an earlier snapshot is displayed
C15_Witness ==
  /\ error = "Location permission denied" /\ ~loading
  /\ weather.kind = "snapshot" /\ forecast # <<>>
  /\ Len(reqs) = 2 /\ reqs[2].kind = "location" /\ reqs[2].pc = "done" /\ reqs[2].oc = "idle"

\* C16: a step of the extended-conditions fetch never changes error,
\* weather, forecast or loading; it stores the data of its own request or,
\* when it fails (both endpoints not ok, or a rejection), sets oneCallData
\* to null.
C16_OneCallFailureSilent ==
  [][\A r \in DOMAIN reqs :
        OneCallStep(r) =>
           /\ UNCHANGED <<error, weather, forecast, loading, weatherType>>
           /\ reqs'[r].oc = "v25" => oneCallData' = oneCallData
           /\ reqs'[r].oc = "done" => oneCallData' \in {Null, OneCall(r)}]_vars

\* the extended-conditions fetch of the displayed request failed; the
\* snapshot and forecast are displayed without an error
C16_Witness ==
  /\ weather.kind = "snapshot" /\ forecast # <<>> /\ forecast[1].q = weather.q
  /\ reqs[weather.q].oc = "done" /\ reqs[weather.q].pc = "done"
  /\ oneCallData = Null /\ error = NoError /\ ~loading

\* some awaited call of a started request, or the scheduled effect, has
\* still to be handled
Continuation ==
  \/ \E r \in 1..MaxRequests, o \in {"ok", "notok", "reject"}, c \in ProviderConditions :
        CityWeatherResponse(r, o, c)
  \/ \E r \in 1..MaxRequests, o \in {"list", "errorBody", "reject"} : CityForecastResponse(r, o)
  \/ \E r \in 1..MaxRequests, o \in {"granted", "denied", "reject"} : PermissionResult(r, o)
  \/ \E r \in 1..MaxRequests, o \in {"fix", "reject"} : PositionResult(r, o)
  \/ \E r \in 1..MaxRequests, o \in {"ok", "errorBody", "reject"}, c \in ProviderConditions :
        CoordsWeatherResponse(r, o, c)
  \/ \E r \in 1..MaxRequests, o \in {"list", "errorBody", "reject"} : CoordsForecastResponse(r, o)
  \/ \E r \in 1..MaxRequests, o \in {"ok", "notok", "reject"} : OneCall30Response(r, o)
  \/ \E r \in 1..MaxRequests, o \in {"ok", "notok", "reject"} : OneCall25Response(r, o)
  \/ RunEffect
Settled == ~ENABLED Continuation

\* C17 (as claimed): once requests were started and every awaited call of
\* theirs has been handled, loading is false and the controller is Ready (snapshot
\* held) or Error (error message set).
C17_LoadingEnds ==
  (reqs # <<>> /\ Settled) => (~loading /\ (weather.kind = "snapshot" \/ error # NoError))

\* ------------------------------------------------------------------------
\* Properties of sessions without overlapping requests (under SeqSpec)
\* ------------------------------------------------------------------------
StartSearch == handleSearch /\ Len(reqs') = Len(reqs) + 1

\* C18: in an Error state a location request can be started, and a search
\* when the search box holds a name; and when the request started last has
\* ended with its weather and forecast stored, no error message is held, its
\* snapshot is held and loading is false.
C18_RecoversFromError ==
  /\ (error # NoError /\ Live /\ Len(reqs) < MaxRequests /\ \A s \in DOMAIN reqs : reqs[s].pc = "done") =>
        /\ ENABLED getLocation
        /\ trim(city) # <<>> => ENABLED StartSearch
  /\ (reqs # <<>> /\ reqs[Len(reqs)].pc = "done" /\ forecast # <<>> /\ forecast[1].q = Len(reqs)) =>
        /\ error = NoError /\ ~loading
        /\ weather.kind = "snapshot" /\ weather.q = Len(reqs)

\* the first request ended in an error (a location request that never got
\* to its weather fetch), the second one ended with its data displayed
C18_Witness ==
  /\ Len(reqs) = 2
  /\ reqs[1].kind = "location" /\ reqs[1].pc = "done" /\ reqs[1].oc = "idle"
  /\ reqs[2].kind = "city" /\ reqs[2].pc = "done" /\ forecast # <<>> /\ forecast[1].q = 2
  /\ error = NoError /\ ~loading /\ weather.kind = "snapshot" /\ weather.q = 2

\* ------------------------------------------------------------------------
\* Properties of the input handlers (under Spec)
\* ------------------------------------------------------------------------
IsBlank(s) == \A i \in 1..Len(s) : s[i] = " "
SearchChanges == handleSearch /\ vars' # vars

\* C19: with an empty or whitespace-only search text, handleSearch changes
\* nothing (no request is started; weather, forecast, oneCallData, loading,
\* error and weatherType stay); a step that starts a city search does so for
\* a text that is not blank, submits that text without its leading and
\* trailing whitespace and leaves weather, forecast, oneCallData and
\* weatherType as they are.
C19_BlankSearchNoOp ==
  /\ []((Live /\ IsBlank(city)) => ~ENABLED SearchChanges)
  /\ [][(Len(reqs') > Len(reqs) /\ reqs'[Len(reqs')].kind = "city") =>
           LET name == reqs'[Len(reqs')].arg IN
             /\ ~IsBlank(city)
             /\ name # <<>> /\ name[1] # " " /\ name[Len(name)] # " "
             /\ \E i \in 0..Len(city) :
                   /\ i + Len(name) <= Len(city)
                   /\ SubSeq(city, i + 1, i + Len(name)) = name
                   /\ IsBlank(SubSeq(city, 1, i))
                   /\ IsBlank(SubSeq(city, i + Len(name) + 1, Len(city)))
             /\ UNCHANGED <<weather, forecast, oneCallData, weatherType>>]_vars

\* a search for " a " is in flight, submitted as "a"
C19_Witness ==
  /\ city = <<" ", "a", " ">>
  /\ \E r \in DOMAIN reqs : reqs[r].kind = "city" /\ reqs[r].pc = "weather" /\ reqs[r].arg = <<"a">>

\* ------------------------------------------------------------------------
\* Properties of the unit toggle (under UnitSpec)
\* ------------------------------------------------------------------------
\* C20: a toggle changes the unit flag and nothing else (snapshot, forecast
\* and extended conditions are as stored), and two renders made under the
\* same unit flag, that is an even number of toggles apart, show the same
\* temperature for the same stored value.
C20_ToggleOnlyFlipsUnit ==
  /\ [][isCelsius' # isCelsius =>
          UNCHANGED <<city, weather, forecast, oneCallData, loading, error, weatherType,
                      hasLoadedWeather, effectPending, crashed, reqs>>]_vars
  /\ [](\A i \in DOMAIN call.shown, j \in DOMAIN call.shown :
          /\ call.shown[i].stored = weather.temp
          /\ call.shown[i].celsius = call.shown[j].celsius =>
                call.shown[i].temp = call.shown[j].temp)

\* rendered in Fahrenheit, toggled to Celsius, rendered, toggled back, rendered
C20_Witness ==
  /\ Len(call.shown) = 3
  /\ ~call.shown[1].celsius /\ call.shown[2].celsius /\ ~call.shown[3].celsius
  /\ call.shown[1].temp = call.shown[3].temp
  /\ call.shown[1].temp # call.shown[2].temp

\* ------------------------------------------------------------------------
\* Properties of the formatting utilities (under FormatSpec)
\* ------------------------------------------------------------------------
Returned(fn) == call.fn = fn /\ call.done

\* C21: whenever calculateDewPoint is called, its humidity argument is
\* strictly positive.
C21_HumidityPositive ==
  call.fn = "calculateDewPoint" => call.arg.humidity > 0

WindOf(d, point) ==
  (Returned("getWindDirection") /\ call.arg = Number(d)) => call.ret = point

\* C22 as stated: 0 degrees gives N, 44 gives N, 46 gives NE, 360 gives N.
C22_WindExamples ==
  WindOf(0, "N") /\ WindOf(44, "N") /\ WindOf(46, "NE") /\ WindOf(360, "N")

\* C22 amended: 0 degrees gives N, 44 gives NE (it is one degree from
\* north-east), 46 gives NE, 360 gives N.
C22_WindExamplesAmended ==
  WindOf(0, "N") /\ WindOf(44, "NE") /\ WindOf(46, "NE") /\ WindOf(360, "N")

C22_Witness ==
  Returned("getWindDirection") /\ call.arg = Number(44) /\ call.ret = "NE"

\* distance in degrees around the circle
Abs(x) == IF x < 0 THEN -x ELSE x
CircleDist(a, b) ==
  LET d == Abs(a - b) % 360 IN IF d > 180 THEN 360 - d ELSE d

\* C23: for integer degrees from 0 the result is one of the eight compass
\* points, it is the entry at index round(degrees / 45) mod 8, and no other
\* point is nearer; for undefined degrees the result is the empty string.
C23_NearestCompassPoint ==
  Returned("getWindDirection") =>
     IF call.arg.kind = "undefined" THEN call.ret = ""
     ELSE \E i \in 1..8 :
            /\ call.ret = directions[i]
            /\ \E j \in 0..(MaxDeg \div 45 + 1) :
                  /\ j % 8 = i - 1
                  /\ 90 * j - 45 <= 2 * call.arg.v
                  /\ 2 * call.arg.v < 90 * j + 45
            /\ \A k \in 0..7 :
                  CircleDist(call.arg.v, 45 * (i - 1)) <= CircleDist(call.arg.v, 45 * k)

\* 350 degrees wraps round to north
C23_Witness ==
  Returned("getWindDirection") /\ call.arg = Number(350) /\ call.ret = "N"

\* C24: the UV buckets have inclusive upper bounds (2 Low, 5 Moderate,
\* 7 High, 10 Very High, beyond Extreme) and every index gets the label of
\* exactly the one bucket it lies in; 2 is Low, 2.01 Moderate, 11 Extreme.
C24_UVBuckets ==
  Returned("getUVLevel") =>
     LET uvi == call.arg
         label == call.ret.label
     IN /\ label \in {"Low", "Moderate", "High", "Very High", "Extreme"}
        /\ label = "Low" <=> uvi <= 200
        /\ label = "Moderate" <=> (200 < uvi /\ uvi <= 500)
        /\ label = "High" <=> (500 < uvi /\ uvi <= 700)
        /\ label = "Very High" <=> (700 < uvi /\ uvi <= 1000)
        /\ label = "Extreme" <=> 1000 < uvi
        /\ uvi = 200 => label = "Low"
        /\ uvi = 201 => label = "Moderate"
        /\ uvi = 1100 => label = "Extreme"

C24_Witness ==
  Returned("getUVLevel") /\ call.arg = 201 /\ call.ret.label = "Moderate"

\* C25: from 1000 meters the text is in kilometers, a whole number when the
\* distance is a whole number of kilometers and else one decimal digit (the
\* tenth of a kilometer nearest to the distance); below 1000 meters it is
\* the meters; 10000 gives "10 km", 1500 "1.5 km", 800 "800 m".
C25_Visibility ==
  Returned("formatVisibility") =>
     LET meters == call.arg
         text == call.ret
     IN /\ (meters >= 1000 /\ meters % 1000 = 0) =>
              (Len(text) = 2 /\ text[1] = meters \div 1000 /\ text[2] = " km")
        /\ (meters >= 1000 /\ meters % 1000 # 0) =>
              /\ Len(text) = 4 /\ text[2] = "." /\ text[4] = " km"
              /\ text[3] \in 0..9
              /\ Abs(100 * (10 * text[1] + text[3]) - meters) <= 50
        /\ meters < 1000 =>
              (Len(text) = 2 /\ text[1] = meters /\ text[2] = " m")
        /\ meters = 10000 => text[1] = 10
        /\ meters = 1500 => (text[1] = 1 /\ text[3] = 5)
        /\ meters = 800 => text[1] = 800

C25_Witness ==
  Returned("formatVisibility") /\ call.arg = 1500 /\ Len(call.ret) = 4
     /\ call.ret[1] = 1 /\ call.ret[3] = 5

\* C26: in Fahrenheit the displayed value is the integer nearest to
\* C * 9/5 + 32 (a half going up), so 0 shows 32 and 100 shows 212; in
\* Celsius it is the integer nearest to C.
C26_ConvertTemp ==
  Returned("convertTemp") =>
     LET t == call.arg
         shown == call.ret
     IN /\ isCelsius => (10 * shown <= t + 5 /\ t + 5 < 10 * shown + 10)
        /\ ~isCelsius =>
              /\ 50 * shown <= 9 * t + 1625
              /\ 9 * t + 1625 < 50 * shown + 50
              /\ t = 0 => shown = 32
              /\ t = 1000 => shown = 212

C26_Witness ==
  Returned("convertTemp") /\ ~isCelsius /\ call.arg = 1000 /\ call.ret = 212

\* C27: the text is the 12-hour reading of the second timestamp + offset of
\* the UTC day: the hour is in 1..12 (local hours 0 and 12 show 12), the
\* minutes are two digits of 00..59, the suffix is AM exactly below local
\* hour 12, and the device's own offset plays no part.
C27_FormatTime ==
  Returned("formatTime") =>
     LET local == (call.arg.timestamp + call.arg.timezoneOffset) % 86400
         hour == local \div 3600
         minute == (local % 3600) \div 60
         text == call.ret
     IN /\ Len(text) = 6 /\ text[2] = ":" /\ text[5] = " "
        /\ text[1] \in 1..12
        /\ text[1] % 12 = hour % 12
        /\ text[3] \in 0..5 /\ text[4] \in 0..9
        /\ 10 * text[3] + text[4] = minute
        /\ text[6] = (IF hour < 12 THEN "AM" ELSE "PM")

\* half past midnight at the location, seen on a device in another zone
C27_Witness ==
  /\ Returned("formatTime") /\ call.arg.deviceOffset # 0
  /\ (call.arg.timestamp + call.arg.timezoneOffset) % 86400 \in 0..3599
  /\ call.ret[1] = 12 /\ call.ret[6] = "AM"

\* ------------------------------------------------------------------------
\* Properties of the presentation states (under Spec)
\* ------------------------------------------------------------------------
PrimaryInFlight(r) == reqs[r].pc \in {"weather", "forecast"}

\* C28: in no state with loading false are an error message and a weather
\* snapshot both held.
C28_ReadyOrError ==
  ~loading => ~(error # NoError /\ weather.kind = "snapshot")

\* C29: loading is true in every state in which a current-weather or
\* forecast fetch of some request is still in flight.
C29_LoadingWhileInFlight ==
  (\E r \in DOMAIN reqs : PrimaryInFlight(r)) => loading

\* C30: hasLoadedWeather starts false, turns true exactly in the step that
\* first stores a current-weather response, and never turns false again;
\* so the showcase is shown only while nothing has been stored, and once
\* hidden it stays hidden.
C30_LoadedMonotonic ==
  /\ [](reqs = <<>> => ~hasLoadedWeather)
  /\ [](showQuadrantShowcase => weather = Null)
  /\ [][~hasLoadedWeather => (hasLoadedWeather' <=> weather' # Null)]_vars
  /\ [][hasLoadedWeather => hasLoadedWeather']_vars
  /\ [][~showQuadrantShowcase => ~showQuadrantShowcase']_vars

\* a failed lookup has cleared the snapshot and the showcase stays hidden
C30_Witness ==
  /\ hasLoadedWeather /\ ~showQuadrantShowcase
  /\ weather = Null /\ error # NoError /\ ~loading

====
